---------------------------- MODULE Spec2Model ----------------------------
(***************************************************************************)
(* Storage-access core of openfga: the concurrency-bounded tuple reader    *)
(* (pkg/storage/storagewrappers/boundedconcurrency.go), the decorator      *)
(* stack built by cmd/openfga/openfga.go, and the migration registry used  *)
(* by the migrations package.                                              *)
(***************************************************************************)
EXTENDS Integers, Sequences, FiniteSets, TLC

(***************************************************************************)
(* Bounds of the model.                                                    *)
(***************************************************************************)
\* Largest capacity a bounded reader is built with (capacities 1..MaxConcurrency).
MaxConcurrency == 2
\* Total number of read calls issued to the bounded reader in one behaviour.
MaxCalls == 3
\* Total number of context cancellations in one behaviour.
MaxCancels == 1

\* Goroutines calling the bounded reader concurrently.
Callers == {"g1", "g2", "g3"}

NoReq == [method |-> "none", key |-> "none"]
\* The calls the callers issue: each of the three methods the bounded reader
\* overrides, over two tuple keys / filters of one store.
Requests ==
    {[method |-> "Read", key |-> "k1"],
     [method |-> "ReadUserTuple", key |-> "k2"],
     [method |-> "ReadUsersetTuples", key |-> "k1"]}

\* A (value, error) pair as returned by a reader method.
NoRet == [val |-> <<>>, err |-> "none"]
CtxErr == [val |-> <<>>, err |-> "context canceled"]
\* What the wrapped reader may return for a request: a value that depends on
\* the method and key, or a storage error; the context's error once the
\* caller's context is done.
WrappedResults(q, done) ==
    {[val |-> <<q.method, q.key>>, err |-> "nil"],
     [val |-> <<>>, err |-> "storage error"]}
    \cup (IF done THEN {CtxErr} ELSE {})

\* The bounded reader.
VARIABLES
    capacity,      \* cap(b.limiter): the "concurrency" given to the constructor
    limiter,       \* number of tokens in the buffer of channel b.limiter
    sendq,         \* goroutines parked on a send to the full channel, FIFO
    pc,            \* where each goroutine is in its call
    req,           \* the method and arguments of the call in progress
    ctxDone,       \* whether the call's context is cancelled / past its deadline
    wreq,          \* the method and arguments the wrapped reader was called with
    wret,          \* what the wrapped reader returned to this call
    wcalls,        \* number of calls this call made to the wrapped reader
    ret,           \* what the call returned to its caller
    blockedCancel, \* history: the context fired while the call was parked
    waited,        \* history: the call was parked on the limiter
    ncalls,        \* calls issued so far (bounded by MaxCalls)
    ncancels       \* contexts cancelled so far (bounded by MaxCancels)

bvars == <<capacity, limiter, sendq, pc, req, ctxDone, wreq, wret, wcalls, ret,
           blockedCancel, waited, ncalls, ncancels>>

\* The decorator stack.
VARIABLES
    cfg,        \* the configuration of this run
    datastore,  \* the physical engine's data: the keys that hold a tuple
    cache,      \* the cache's entries [fp, snap], most recently used first
    spc,        \* where each reader is in its read
    sreq,       \* the read in progress
    sres,       \* what the engine returned to the read in progress
    sret,       \* what the last read of the reader returned
    path,       \* the layers the read in progress has entered
    reached,    \* history: number of reads that reached the engine
    hits,       \* history: number of reads served from the cache
    recency,    \* history: fingerprints by most recent use, most recent first
    last,       \* history: per fingerprint, the last returned read not evicted since
    start,      \* history: per reader, what was known of the fingerprint at the start
    nreads,     \* reads issued so far
    nwrites     \* writes applied so far

svars == <<cfg, datastore, cache, spc, sreq, sres, sret, path, reached, hits,
           recency, last, start, nreads, nwrites>>

\* The migration registry.
VARIABLES
    registered,  \* the registry: versions in the order of the Register calls
    mphase,      \* "building", "idle", "up" or "down"
    batch,       \* the kind of the current or last batch: "none", "up" or "down"
    marker,      \* the persisted current version (0: nothing applied)
    startMarker, \* history: the marker when the current batch started
    mlog,        \* history: the steps executed by the current batch, in order
    nbatches,    \* batches started so far
    schema,      \* the committed columns of the tables tuple and changelog
    step,        \* history: the last step the registry ran, and the state before it
    pre005       \* history: the schema before the last committed up005

xvars == <<schema, step, pre005>>

mvars == <<registered, mphase, batch, marker, startMarker, mlog, nbatches, xvars>>

\* The process: main and buildServerAndDatastore.
VARIABLES
    apc,           \* where main is
    config,        \* svcConfig as read from the environment
    engine,        \* the physical engine constructed: its kind and its Close calls
    authenticator, \* the authenticator variable of buildServerAndDatastore
    nauth,         \* history: authenticators constructed
    interceptors,  \* the unary interceptors given to the server
    server,        \* the server: "none", "built", "running", "stopped", "closed"
    built,         \* what buildServerAndDatastore returned
    alog           \* history: the lifecycle calls made and their results, in order

avars == <<apc, config, engine, authenticator, nauth, interceptors, server,
           built, alog>>

vars == <<bvars, svars, mvars, avars>>

(***************************************************************************)
(* NewBoundedConcurrencyTupleReader: an empty channel of the given         *)
(* capacity; no call in progress.                                          *)
(***************************************************************************)
InitBounded ==
    /\ capacity \in 1..MaxConcurrency
    /\ limiter = 0
    /\ sendq = <<>>
    /\ pc = [g \in Callers |-> "idle"]
    /\ req = [g \in Callers |-> NoReq]
    /\ ctxDone = [g \in Callers |-> FALSE]
    /\ wreq = [g \in Callers |-> NoReq]
    /\ wret = [g \in Callers |-> NoRet]
    /\ wcalls = [g \in Callers |-> 0]
    /\ ret = [g \in Callers |-> NoRet]
    /\ blockedCancel = [g \in Callers |-> FALSE]
    /\ waited = [g \in Callers |-> FALSE]
    /\ ncalls = 0
    /\ ncancels = 0

\* Mutant of waitForLimiter: the send never blocks (an unbounded channel).
waitForLimiterUnbounded(g) ==
    /\ limiter' = limiter + 1
    /\ pc' = [pc EXCEPT ![g] = "acquired"]
    /\ UNCHANGED <<sendq, waited>>

(***************************************************************************)
(* waitForLimiter: "b.limiter <- struct{}{}".  The send completes at once  *)
(* when the buffer has room; otherwise the goroutine parks on the          *)
(* channel's send queue.  ctx is used only for the span attribute: the     *)
(* send does not select on ctx.Done().                                     *)
(***************************************************************************)
waitForLimiter(g) ==
    IF limiter < capacity
    THEN /\ limiter' = limiter + 1
         /\ pc' = [pc EXCEPT ![g] = "acquired"]
         /\ UNCHANGED <<sendq, waited>>
    ELSE /\ sendq' = Append(sendq, g)
         /\ pc' = [pc EXCEPT ![g] = "waiting"]
         /\ waited' = [waited EXCEPT ![g] = TRUE]
         /\ UNCHANGED limiter

\* A goroutine starts the call r with a live context.
Enter(g, r) ==
    /\ pc[g] \in {"idle", "returned"}
    /\ ncalls < MaxCalls
    /\ ncalls' = ncalls + 1
    /\ req' = [req EXCEPT ![g] = r]
    /\ ret' = [ret EXCEPT ![g] = NoRet]
    /\ wret' = [wret EXCEPT ![g] = NoRet]
    /\ waitForLimiter(g)
    /\ UNCHANGED <<capacity, ctxDone, wreq, wcalls, blockedCancel, ncancels>>
    /\ UNCHANGED <<svars, mvars, avars>>

ReadUserTuple(g) ==
    \E r \in Requests : r.method = "ReadUserTuple" /\ Enter(g, r)

Read(g) ==
    \E r \in Requests : r.method = "Read" /\ Enter(g, r)

ReadUsersetTuples(g) ==
    \E r \in Requests : r.method = "ReadUsersetTuples" /\ Enter(g, r)

\* The caller's context is cancelled or its deadline fires during the call:
\* while it is parked, or while the wrapped call runs (nothing reads the
\* context between the send and the wrapped call).
Cancel(g) ==
    /\ pc[g] \in {"waiting", "wrapped"}
    /\ ~ctxDone[g]
    /\ ncancels < MaxCancels
    /\ ncancels' = ncancels + 1
    /\ ctxDone' = [ctxDone EXCEPT ![g] = TRUE]
    /\ blockedCancel' = [blockedCancel EXCEPT ![g] = (pc[g] = "waiting")]
    /\ UNCHANGED <<capacity, limiter, sendq, pc, req, wreq, wret, wcalls, ret,
                   waited, ncalls>>
    /\ UNCHANGED <<svars, mvars, avars>>

\* The wrapped method each override forwards to, with the same arguments.
WrappedMethod(g) == req[g]

\* "return b.RelationshipTupleReader.<Method>(ctx, store, ...)": the call
\* enters the wrapped reader once the send has completed.
Delegate(g) ==
    /\ pc[g] = "acquired"
    /\ pc' = [pc EXCEPT ![g] = "wrapped"]
    /\ wreq' = [wreq EXCEPT ![g] = WrappedMethod(g)]
    /\ wcalls' = [wcalls EXCEPT ![g] = wcalls[g] + 1]
    /\ UNCHANGED <<capacity, limiter, sendq, req, ctxDone, wret, ret,
                   blockedCancel, waited, ncalls, ncancels>>
    /\ UNCHANGED <<svars, mvars, avars>>

\* Read and ReadUsersetTuples return a storage.TupleIterator with a nil error,
\* ReadUserTuple a tuple: r, returned for the request q, is an iterator.  The
\* reader hands the wrapped reader's iterator on as it is and takes no part
\* in its release.
IsIterator(q, r) == q.method \in {"Read", "ReadUsersetTuples"} /\ r.err = "nil"

\* Mutant of receiveLimiter: a call whose context is done returns without
\* running the receive.
receiveLimiterLeaksOnCancel(g) ==
    IF ctxDone[g]
    THEN /\ pc' = [pc EXCEPT ![g] = "returned"]
         /\ UNCHANGED <<limiter, sendq>>
    ELSE IF sendq # <<>>
    THEN /\ sendq' = Tail(sendq)
         /\ pc' = [pc EXCEPT ![g] = "returned", ![Head(sendq)] = "acquired"]
         /\ UNCHANGED limiter
    ELSE /\ limiter' = limiter - 1
         /\ pc' = [pc EXCEPT ![g] = "returned"]
         /\ UNCHANGED sendq

\* Mutant of receiveLimiter: the unit is given back only after a success.
receiveLimiterOnSuccess(g) ==
    IF wret'[g].err # "nil"
    THEN /\ pc' = [pc EXCEPT ![g] = "returned"]
         /\ UNCHANGED <<limiter, sendq>>
    ELSE IF sendq # <<>>
    THEN /\ sendq' = Tail(sendq)
         /\ pc' = [pc EXCEPT ![g] = "returned", ![Head(sendq)] = "acquired"]
         /\ UNCHANGED limiter
    ELSE /\ limiter' = limiter - 1
         /\ pc' = [pc EXCEPT ![g] = "returned"]
         /\ UNCHANGED sendq

\* Mutant of receiveLimiter: when the call returns an iterator the unit stays
\* with it, to be given back when the iterator is released.
receiveLimiterKeptByIterator(g) ==
    IF IsIterator(wreq[g], wret'[g])
    THEN /\ pc' = [pc EXCEPT ![g] = "returned"]
         /\ UNCHANGED <<limiter, sendq>>
    ELSE IF sendq # <<>>
    THEN /\ sendq' = Tail(sendq)
         /\ pc' = [pc EXCEPT ![g] = "returned", ![Head(sendq)] = "acquired"]
         /\ UNCHANGED limiter
    ELSE /\ limiter' = limiter - 1
         /\ pc' = [pc EXCEPT ![g] = "returned"]
         /\ UNCHANGED sendq

(***************************************************************************)
(* "<-b.limiter" in the deferred function.  A receive from a full channel  *)
(* with parked senders takes a token and puts the first parked sender's    *)
(* token in its place, waking that sender; otherwise it removes a token.   *)
(***************************************************************************)
receiveLimiter(g) ==
    IF sendq # <<>>
    THEN /\ sendq' = Tail(sendq)
         /\ pc' = [pc EXCEPT ![g] = "returned", ![Head(sendq)] = "acquired"]
         /\ UNCHANGED limiter
    ELSE /\ limiter' = limiter - 1
         /\ pc' = [pc EXCEPT ![g] = "returned"]
         /\ UNCHANGED sendq

\* Mutant of Returned: an error of the wrapped reader is swallowed.
ReturnedSwallowsError(r) ==
    IF r.err # "nil" THEN [val |-> <<>>, err |-> "nil"] ELSE r

\* The results of the method: those of the return statement, r being what
\* the wrapped method returned.
Returned(r) == r

\* The wrapped method returns r, the deferred function runs, and the call
\* returns to its caller; the call's frame (arguments, context) is gone.
Return(g) ==
    /\ pc[g] = "wrapped"
    /\ limiter > 0
    /\ \E r \in WrappedResults(wreq[g], ctxDone[g]) :
          /\ wret' = [wret EXCEPT ![g] = r]
          /\ ret' = [ret EXCEPT ![g] = Returned(r)]
    /\ receiveLimiter(g)
    /\ req' = [req EXCEPT ![g] = NoReq]
    /\ ctxDone' = [ctxDone EXCEPT ![g] = FALSE]
    /\ wreq' = [wreq EXCEPT ![g] = NoReq]
    /\ wcalls' = [wcalls EXCEPT ![g] = 0]
    /\ blockedCancel' = [blockedCancel EXCEPT ![g] = FALSE]
    /\ waited' = [waited EXCEPT ![g] = FALSE]
    /\ UNCHANGED <<capacity, ncalls, ncancels>>
    /\ UNCHANGED <<svars, mvars, avars>>

NextBounded ==
    \E g \in Callers :
        \/ Read(g)
        \/ ReadUserTuple(g)
        \/ ReadUsersetTuples(g)
        \/ Cancel(g)
        \/ Delegate(g)
        \/ Return(g)

(***************************************************************************)
(* The decorator stack built at startup (cmd/openfga/openfga.go): the      *)
(* caching datastore built around the physical engine, and the reads that  *)
(* go through it.                                                          *)
(***************************************************************************)
\* Largest cache capacity of the small configurations (capacities 1..MaxCacheSize).
MaxCacheSize == 2
\* Reads issued through the stack in one behaviour of a small configuration.
MaxReads == 4
\* Writes applied to the engine in one behaviour of a small configuration.
MaxWrites == 1

\* Goroutines reading through the stack.
Readers == {"r1", "r2", "r3", "r4", "r5"}

\* The reads issued through the stack: (store, operation kind, filter).
StackRequests ==
    {[store |-> "s1", kind |-> "ReadUserTuple", key |-> "k1"],
     [store |-> "s1", kind |-> "Read", key |-> "k1"],
     [store |-> "s1", kind |-> "ReadUserTuple", key |-> "k2"]}

NoStackReq == [store |-> "none", kind |-> "none", key |-> "none"]

\* The cache key of a read: a function of store, operation kind and filter.
Fingerprint(q) == <<q.store, q.kind, q.key>>

\* The configurations the stack is started with: the end-to-end scenario
\* (5 concurrent exact-match reads of one key, cache capacity 10, no write),
\* and small caches shared by two readers.
Configs ==
    {[name |-> "e2e", readers |-> Readers, cap |-> 10, reads |-> 5, writes |-> 0,
      requests |-> {[store |-> "s1", kind |-> "ReadUserTuple", key |-> "k1"]}]}
    \cup
    {[name |-> "small", readers |-> {"r1", "r2"}, cap |-> c, reads |-> MaxReads,
      writes |-> MaxWrites, requests |-> StackRequests] : c \in 1..MaxCacheSize}

NoLast == [ret |-> <<>>, calls |-> 0]

\* buildServerAndDatastore with the memory engine: an empty engine, an empty
\* cache of the configured capacity, no read in progress.
InitStack ==
    /\ cfg \in Configs
    /\ datastore = {}
    /\ cache = <<>>
    /\ spc = [r \in Readers |-> "idle"]
    /\ sreq = [r \in Readers |-> NoStackReq]
    /\ sres = [r \in Readers |-> <<>>]
    /\ sret = [r \in Readers |-> <<>>]
    /\ path = [r \in Readers |-> <<>>]
    /\ reached = 0
    /\ hits = 0
    /\ recency = <<>>
    /\ start = [r \in Readers |-> [last |-> NoLast, was |-> "new"]]
    /\ last = [f \in {Fingerprint(q) : q \in StackRequests} |-> NoLast]
    /\ nreads = 0
    /\ nwrites = 0

\* Mutant of StackLayers: the server is given the physical engine itself.
StackLayersUncached == <<"engine">>

\* The layers of the datastore given to server.New, outermost first:
\* caching.NewCachedOpenFGADatastore(datastore, ...), the caching datastore
\* built around the physical engine itself.
StackLayers == <<"caching", "engine">>

\* Mutant of CacheCapacity: the cache is built one entry too large.
CacheCapacityOffByOne == cfg.cap + 1

\* The capacity the cache is built with: config.DatastoreMaxCacheSize.
CacheCapacity == cfg.cap

\* A sequence of fingerprints without f.
RECURSIVE Without(_, _)
Without(seq, f) ==
    IF seq = <<>> THEN <<>>
    ELSE IF Head(seq) = f THEN Without(Tail(seq), f)
    ELSE <<Head(seq)>> \o Without(Tail(seq), f)

\* The cache entries without the entry of fingerprint f.
RECURSIVE WithoutFp(_, _)
WithoutFp(entries, f) ==
    IF entries = <<>> THEN <<>>
    ELSE IF Head(entries).fp = f THEN WithoutFp(Tail(entries), f)
    ELSE <<Head(entries)>> \o WithoutFp(Tail(entries), f)

\* The fingerprints of a sequence of cache entries.
FpsOf(entries) == {entries[i].fp : i \in 1..Len(entries)}

CachedFps == FpsOf(cache)

\* The cache entry of fingerprint f.
Entry(f) == cache[CHOOSE i \in 1..Len(cache) : cache[i].fp = f]

\* The fingerprint becomes the most recently used.
Touch(f) == <<f>> \o Without(recency, f)

\* Whether the cache holds an entry for the fingerprint.
CacheGet(f) == f \in CachedFps

\* The cache after storing a snapshot: the entry becomes the most recently
\* used, and the least recently used entry is evicted when the capacity would
\* be exceeded.
CacheSet(f, snap) ==
    LET rest == WithoutFp(cache, f)
        kept == IF Len(rest) >= CacheCapacity THEN SubSeq(rest, 1, CacheCapacity - 1) ELSE rest
    IN  <<[fp |-> f, snap |-> snap]>> \o kept

\* The result of an engine read: the tuple of the key, or not found.
EngineRead(q) ==
    IF q.key \in datastore THEN <<"tuple", q.kind, q.key>> ELSE <<"not found">>

\* The first n fingerprints of the recency order.
MostRecent(n) == {recency[i] : i \in 1..(IF n < Len(recency) THEN n ELSE Len(recency))}

\* What is known of a fingerprint when a read of it starts: the last returned
\* read of it, and whether it is among the cfg.cap most recently used.
AtStart(f) ==
    [last |-> last[f],
     was |-> IF f \in MostRecent(cfg.cap) THEN "retained"
             ELSE IF f \in MostRecent(Len(recency)) THEN "evicted"
             ELSE "new"]

\* A read enters the datastore the server was given.  Through the caching
\* reader a hit returns the cached snapshot without touching the wrapped
\* reader, and a miss delegates to the wrapped reader; without it the read
\* goes to the engine.
StackRead(r) ==
    /\ r \in cfg.readers
    /\ spc[r] \in {"idle", "done"}
    /\ nreads < cfg.reads
    /\ nreads' = nreads + 1
    /\ \E q \in cfg.requests :
          /\ sreq' = [sreq EXCEPT ![r] = q]
          /\ start' = [start EXCEPT ![r] = AtStart(Fingerprint(q))]
          /\ IF Head(StackLayers) = "caching" /\ CacheGet(Fingerprint(q))
             THEN /\ spc' = [spc EXCEPT ![r] = "done"]
                  /\ sret' = [sret EXCEPT ![r] = Entry(Fingerprint(q)).snap]
                  /\ path' = [path EXCEPT ![r] = <<"caching">>]
                  /\ cache' = <<Entry(Fingerprint(q))>>
                                 \o WithoutFp(cache, Fingerprint(q))
                  /\ recency' = Touch(Fingerprint(q))
                  /\ hits' = hits + 1
                  /\ last' = [last EXCEPT ![Fingerprint(q)] =
                                 [ret |-> Entry(Fingerprint(q)).snap, calls |-> 0]]
                  /\ UNCHANGED reached
             ELSE /\ spc' = [spc EXCEPT ![r] = "engine"]
                  /\ sret' = [sret EXCEPT ![r] = <<>>]
                  /\ path' = [path EXCEPT ![r] = StackLayers]
                  /\ reached' = reached + 1
                  /\ UNCHANGED <<cache, recency, hits, last>>
    /\ UNCHANGED <<cfg, datastore, sres, nwrites>>
    /\ UNCHANGED <<bvars, mvars, avars>>

\* The engine executes the read and returns its result.
EngineReturns(r) ==
    /\ spc[r] = "engine"
    /\ sres' = [sres EXCEPT ![r] = EngineRead(sreq[r])]
    /\ spc' = [spc EXCEPT ![r] = "fetched"]
    /\ UNCHANGED <<cfg, datastore, cache, sreq, sret, path, reached, hits,
                   recency, last, start, nreads, nwrites>>
    /\ UNCHANGED <<bvars, mvars, avars>>

\* The last returned read of each fingerprint once r's read has returned and
\* the cache holds the entries of newCache: an evicted fingerprint has none.
LastAfter(r, newCache) ==
    [f \in DOMAIN last |->
        IF f = Fingerprint(sreq[r]) THEN [ret |-> sres[r], calls |-> 1]
        ELSE IF f \in FpsOf(newCache) THEN last[f]
        ELSE NoLast]

\* The engine's result goes back up the stack: the caching reader stores it
\* under the fingerprint, then the read returns it.
StoreAndReturn(r) ==
    /\ spc[r] = "fetched"
    /\ IF Head(StackLayers) = "caching"
       THEN /\ cache' = CacheSet(Fingerprint(sreq[r]), sres[r])
            /\ recency' = Touch(Fingerprint(sreq[r]))
            /\ last' = LastAfter(r, CacheSet(Fingerprint(sreq[r]), sres[r]))
       ELSE /\ last' = LastAfter(r, cache)
            /\ UNCHANGED <<cache, recency>>
    /\ sret' = [sret EXCEPT ![r] = sres[r]]
    /\ spc' = [spc EXCEPT ![r] = "done"]
    /\ sres' = [sres EXCEPT ![r] = <<>>]
    /\ UNCHANGED <<cfg, datastore, sreq, path, reached, hits, start, nreads, nwrites>>
    /\ UNCHANGED <<bvars, mvars, avars>>

\* A write goes straight through the decorators to the engine: a tuple is
\* inserted or deleted; no cache entry is invalidated.
Write(k) ==
    /\ nwrites < cfg.writes
    /\ nwrites' = nwrites + 1
    /\ datastore' = IF k \in datastore THEN datastore \ {k} ELSE datastore \cup {k}
    /\ UNCHANGED <<cfg, cache, spc, sreq, sres, sret, path, reached, hits,
                   recency, last, start, nreads>>
    /\ UNCHANGED <<bvars, mvars, avars>>

NextStack ==
    \/ \E r \in Readers : StackRead(r)
    \/ \E r \in Readers : EngineReturns(r)
    \/ \E r \in Readers : StoreAndReturn(r)
    \/ \E k \in {"k1", "k2"} : Write(k)

(***************************************************************************)
(* The migration registry (package migrate) and the registration of        *)
(* migration 5 by the migrations package.                                  *)
(***************************************************************************)
\* Versions 1..MaxOtherVersion are registered by the other migration files.
MaxOtherVersion == 3
\* Apply-up / apply-down batches run in one behaviour.
MaxBatches == 2

\* The version registered by init() of the migration file.
Version005 == 5

Versions == (1..MaxOtherVersion) \cup {Version005}

\* The tables migration 5 alters, and the columns it adds and drops.
Tables == {"tuple", "changelog"}
ConditionColumns == {"condition_name", "condition_context"}

\* Schemas a database may have before migration 5: neither table has the
\* condition columns.
BaseSchemas ==
    {[t \in Tables |-> IF t = "tuple" THEN {"store", "object", "relation", "user"}
                       ELSE {"store", "object", "relation", "user", "operation"}],
     [t \in Tables |-> IF t = "tuple" THEN {"store", "object", "relation", "user", "ulid"}
                       ELSE {"store", "operation", "ulid"}]}

\* "stmts" of up005.
up005Stmts ==
    << [op |-> "ADD", table |-> "tuple",
        cols |-> {"condition_name", "condition_context"}],
       [op |-> "ADD", table |-> "changelog",
        cols |-> {"condition_name", "condition_context"}] >>

\* Mutant of down005Stmts: the second statement drops one column only.
down005StmtsKeepContext ==
    << [op |-> "DROP", table |-> "tuple",
        cols |-> {"condition_name", "condition_context"}],
       [op |-> "DROP", table |-> "changelog",
        cols |-> {"condition_name"}] >>

\* "stmts" of down005.
down005Stmts ==
    << [op |-> "DROP", table |-> "tuple",
        cols |-> {"condition_name", "condition_context"}],
       [op |-> "DROP", table |-> "changelog",
        cols |-> {"condition_name", "condition_context"}] >>

\* The steps of the other migrations: one statement that leaves the columns
\* of the two tables as they are.
OtherStmts == << [op |-> "OTHER", table |-> "tuple", cols |-> {}] >>

\* The columns after a statement that succeeded.
Apply(stmt, s) ==
    IF stmt.op = "ADD" THEN [s EXCEPT ![stmt.table] = @ \cup stmt.cols]
    ELSE IF stmt.op = "DROP" THEN [s EXCEPT ![stmt.table] = @ \ stmt.cols]
    ELSE s

\* The error of a statement: the execution fails (connection, lock, timeout),
\* a column to add exists, or a column to drop does not.
StmtError(stmt, s, ioFails) ==
    IF ioFails THEN "exec error"
    ELSE IF stmt.op = "ADD" /\ stmt.cols \cap s[stmt.table] # {} THEN "column exists"
    ELSE IF stmt.op = "DROP" /\ ~(stmt.cols \subseteq s[stmt.table]) THEN "column missing"
    ELSE "nil"

\* A transaction handle t: t.db is the committed schema, t.work the schema as
\* the transaction sees it.
Begin == [db |-> schema, work |-> schema]

\* Mutant of ExecContext: the statement runs on the database handle, outside
\* the transaction, and is committed at once.
ExecContextOnDB(t, stmt, ioFails) ==
    LET e == StmtError(stmt, t.work, ioFails) IN
    [tx |-> IF e = "nil"
            THEN [db |-> Apply(stmt, t.db), work |-> Apply(stmt, t.work)]
            ELSE t,
     err |-> e]

\* "tx.ExecContext(ctx, stmt)": the statement acts inside the transaction.
ExecContext(t, stmt, ioFails) ==
    LET e == StmtError(stmt, t.work, ioFails) IN
    [tx |-> IF e = "nil" THEN [t EXCEPT !.work = Apply(stmt, @)] ELSE t,
     err |-> e]

\* Mutant of ExecAll: the loop goes on after a failed statement and returns
\* the error of the last statement.
RECURSIVE LoopContinues(_, _, _, _, _)
LoopContinues(stmts, i, t, done, fails) ==
    IF i > Len(stmts)
    THEN [tx |-> t, executed |-> done,
          err |-> IF done = <<>> THEN "nil" ELSE done[Len(done)].err]
    ELSE LET o == ExecContext(t, stmts[i], i \in fails) IN
         LoopContinues(stmts, i + 1, o.tx, Append(done, [stmt |-> stmts[i], err |-> o.err]), fails)

ExecAllContinues(stmts, t, fails) == LoopContinues(stmts, 1, t, <<>>, fails)

\* "for _, stmt := range stmts { _, err := tx.ExecContext(ctx, stmt);
\*  if err != nil { return err } }; return nil", the executions of the
\* statements with an index in fails failing.
RECURSIVE Loop(_, _, _, _, _)
Loop(stmts, i, t, done, fails) ==
    IF i > Len(stmts)
    THEN [tx |-> t, executed |-> done, err |-> "nil"]
    ELSE LET o == ExecContext(t, stmts[i], i \in fails) IN
         IF o.err # "nil"
         THEN [tx |-> o.tx, executed |-> Append(done, [stmt |-> stmts[i], err |-> o.err]),
               err |-> o.err]
         ELSE Loop(stmts, i + 1, o.tx, Append(done, [stmt |-> stmts[i], err |-> o.err]), fails)

ExecAll(stmts, t, fails) == Loop(stmts, 1, t, <<>>, fails)

up005(t, fails) == ExecAll(up005Stmts, t, fails)

down005(t, fails) == ExecAll(down005Stmts, t, fails)

\* The Forward and Backward fields of the migration of version v.
Forward(v, t, fails) ==
    IF v = Version005 THEN up005(t, fails) ELSE ExecAll(OtherStmts, t, fails)

Backward(v, t, fails) ==
    IF v = Version005 THEN down005(t, fails) ELSE ExecAll(OtherStmts, t, fails)

\* The statements of a step, and the sets of statements whose execution may fail.
StmtsOf(fn, v) ==
    IF v # Version005 THEN OtherStmts
    ELSE IF fn = "forward" THEN up005Stmts ELSE down005Stmts

FailSets(fn, v) == SUBSET (1..Len(StmtsOf(fn, v)))

NoStep == [fn |-> "none", version |-> 0, executed |-> <<>>, err |-> "nil",
           committed |-> FALSE]

InitMigrate ==
    /\ registered = <<>>
    /\ mphase = "building"
    /\ batch = "none"
    /\ marker = 0
    /\ startMarker = 0
    /\ mlog = <<>>
    /\ nbatches = 0
    /\ schema \in BaseSchemas
    /\ step = [run |-> NoStep, schema |-> schema, marker |-> 0]
    /\ pre005 = schema

RegisteredVersions == {registered[i] : i \in 1..Len(registered)}

\* Register: a duplicate version is rejected and leaves the registry as it
\* was; otherwise the migration is added.
Register(v) ==
    /\ mphase = "building"
    /\ registered' = IF v \in RegisteredVersions THEN registered
                     ELSE Append(registered, v)
    /\ UNCHANGED <<mphase, batch, marker, startMarker, mlog, nbatches, xvars>>
    /\ UNCHANGED <<bvars, svars, avars>>

\* init() of the migration file: Migrations.Register of version 5.
init == Register(Version005)

\* The other migration files register their versions, in any order.
RegisterOther == \E v \in 1..MaxOtherVersion : Register(v)

\* The registry is complete: no migration has executed before this.
Build ==
    /\ mphase = "building"
    /\ mphase' = "idle"
    /\ UNCHANGED <<registered, batch, marker, startMarker, mlog, nbatches, xvars>>
    /\ UNCHANGED <<bvars, svars, avars>>

\* Mutant of NextUp: the next migration is the first unapplied one in
\* registration order.
NextUpByRegistration ==
    registered[CHOOSE i \in 1..Len(registered) :
                  /\ registered[i] > marker
                  /\ \A j \in 1..(i - 1) : registered[j] <= marker]

\* The next migration apply-up executes: the unapplied one of least version.
NextUp ==
    CHOOSE v \in RegisteredVersions :
        /\ v > marker
        /\ \A w \in RegisteredVersions : w > marker => v <= w

\* The next migration apply-down reverts: the applied one of greatest version.
NextDown ==
    CHOOSE v \in RegisteredVersions :
        /\ v <= marker
        /\ \A w \in RegisteredVersions : w <= marker => w <= v

\* The marker after reverting v: the greatest registered version below it.
Below(v) ==
    IF \E w \in RegisteredVersions : w < v
    THEN CHOOSE w \in RegisteredVersions :
             w < v /\ \A x \in RegisteredVersions : x < v => x <= w
    ELSE 0

StartUp ==
    /\ mphase = "idle"
    /\ nbatches < MaxBatches
    /\ nbatches' = nbatches + 1
    /\ mphase' = "up"
    /\ batch' = "up"
    /\ startMarker' = marker
    /\ mlog' = <<>>
    /\ UNCHANGED <<registered, marker, xvars>>
    /\ UNCHANGED <<bvars, svars, avars>>

StartDown ==
    /\ mphase = "idle"
    /\ nbatches < MaxBatches
    /\ nbatches' = nbatches + 1
    /\ mphase' = "down"
    /\ batch' = "down"
    /\ startMarker' = marker
    /\ mlog' = <<>>
    /\ UNCHANGED <<registered, marker, xvars>>
    /\ UNCHANGED <<bvars, svars, avars>>

\* The record of a step that ran r on the migration of version v.
StepRun(fn, v, r, ok) ==
    [run |-> [fn |-> fn, version |-> v, executed |-> r.executed, err |-> r.err,
              committed |-> ok],
     schema |-> schema, marker |-> marker]

\* Apply-up runs the forward step of the next unapplied migration in one
\* transaction; the step returned nil: the transaction is committed and the
\* marker moves to the migration's version.
ForwardCommits ==
    /\ mphase = "up"
    /\ \E v \in RegisteredVersions : v > marker
    /\ \E fails \in FailSets("forward", NextUp) :
          LET r == Forward(NextUp, Begin, fails) IN
          /\ r.err = "nil"
          /\ schema' = r.tx.work
          /\ step' = StepRun("forward", NextUp, r, TRUE)
    /\ pre005' = IF NextUp = Version005 THEN schema ELSE pre005
    /\ mlog' = Append(mlog, <<"forward", NextUp>>)
    /\ marker' = NextUp
    /\ UNCHANGED <<registered, mphase, batch, startMarker, nbatches>>
    /\ UNCHANGED <<bvars, svars, avars>>

\* The forward step returned an error: its transaction is rolled back, the
\* marker stays and the batch stops.
ForwardFails ==
    /\ mphase = "up"
    /\ \E v \in RegisteredVersions : v > marker
    /\ \E fails \in FailSets("forward", NextUp) :
          LET r == Forward(NextUp, Begin, fails) IN
          /\ r.err # "nil"
          /\ schema' = r.tx.db
          /\ step' = StepRun("forward", NextUp, r, FALSE)
    /\ mlog' = Append(mlog, <<"forward failed", NextUp>>)
    /\ mphase' = "idle"
    /\ UNCHANGED <<registered, batch, marker, startMarker, nbatches, pre005>>
    /\ UNCHANGED <<bvars, svars, avars>>

\* Apply-down runs the backward step of the last applied migration.
BackwardCommits ==
    /\ mphase = "down"
    /\ \E v \in RegisteredVersions : v <= marker
    /\ \E fails \in FailSets("backward", NextDown) :
          LET r == Backward(NextDown, Begin, fails) IN
          /\ r.err = "nil"
          /\ schema' = r.tx.work
          /\ step' = StepRun("backward", NextDown, r, TRUE)
    /\ mlog' = Append(mlog, <<"backward", NextDown>>)
    /\ marker' = Below(NextDown)
    /\ UNCHANGED <<registered, mphase, batch, startMarker, nbatches, pre005>>
    /\ UNCHANGED <<bvars, svars, avars>>

BackwardFails ==
    /\ mphase = "down"
    /\ \E v \in RegisteredVersions : v <= marker
    /\ \E fails \in FailSets("backward", NextDown) :
          LET r == Backward(NextDown, Begin, fails) IN
          /\ r.err # "nil"
          /\ schema' = r.tx.db
          /\ step' = StepRun("backward", NextDown, r, FALSE)
    /\ mlog' = Append(mlog, <<"backward failed", NextDown>>)
    /\ mphase' = "idle"
    /\ UNCHANGED <<registered, batch, marker, startMarker, nbatches, pre005>>
    /\ UNCHANGED <<bvars, svars, avars>>

\* Nothing is left to apply or to revert: the batch ends.
BatchEnds ==
    /\ \/ mphase = "up" /\ ~ \E v \in RegisteredVersions : v > marker
       \/ mphase = "down" /\ ~ \E v \in RegisteredVersions : v <= marker
    /\ mphase' = "idle"
    /\ UNCHANGED <<registered, batch, marker, startMarker, mlog, nbatches, xvars>>
    /\ UNCHANGED <<bvars, svars, avars>>

NextMigrate ==
    \/ init
    \/ RegisterOther
    \/ Build
    \/ StartUp
    \/ StartDown
    \/ ForwardCommits
    \/ ForwardFails
    \/ BackwardCommits
    \/ BackwardFails
    \/ BatchEnds

(***************************************************************************)
(* The process (cmd/openfga/openfga.go): buildServerAndDatastore and the   *)
(* lifecycle run by main.                                                  *)
(***************************************************************************)
\* Values of OPENFGA_DATASTORE_ENGINE: the two supported names, and names
\* that are not supported.
EngineNames == {"memory", "postgres", "mysql", "Memory"}

\* Values of OPENFGA_AUTH_METHOD: the documented ones, and others.
AuthMethods == {"none", "preshared", "oidc", "presharedkey"}

\* The configurations read from the environment: the engine name, the
\* authentication method, the preshared keys, and the issuer URL.
SvcConfigs ==
    [DatastoreEngine : EngineNames,
     AuthMethod : AuthMethods,
     PresharedKeys : {<<>>, <<"secret">>},
     IssuerURL : {"", "https://issuer"}]

NoConfig ==
    [DatastoreEngine |-> "", AuthMethod |-> "", PresharedKeys |-> <<>>,
     IssuerURL |-> ""]

NoEngine == [kind |-> "none", closes |-> 0]

\* The results of buildServerAndDatastore.
NotBuilt == [datastore |-> "none", server |-> "none", err |-> "pending"]

BuildError(e) == [datastore |-> "none", server |-> "none", err |-> e]

InitApp ==
    /\ apc = "start"
    /\ config = NoConfig
    /\ engine = NoEngine
    /\ authenticator = "none"
    /\ nauth = 0
    /\ interceptors = <<>>
    /\ server = "none"
    /\ built = NotBuilt
    /\ alog = <<>>

\* "envconfig.Process("OPENFGA", &config)": the configuration is read, or
\* the function returns an error.
ProcessConfig ==
    /\ apc = "start"
    /\ \/ /\ config' \in SvcConfigs
          /\ apc' = "engine"
          /\ UNCHANGED built
       \/ /\ built' = BuildError("failed to process server config")
          /\ apc' = "returned"
          /\ UNCHANGED config
    /\ UNCHANGED <<engine, authenticator, nauth, interceptors, server, alog>>
    /\ UNCHANGED <<bvars, svars, mvars>>

\* Mutant of EngineFor: a name that is not known selects the default engine.
EngineForDefaultsToMemory(name, connected) ==
    IF name = "postgres"
    THEN IF connected THEN [kind |-> "postgres", err |-> "nil"]
         ELSE [kind |-> "none", err |-> "failed to initialize postgres datastore"]
    ELSE [kind |-> "memory", err |-> "nil"]

\* "switch config.DatastoreEngine": the datastore each name selects;
\* connected tells whether postgres.NewPostgresDatastore succeeds.
EngineFor(name, connected) ==
    IF name = "memory" THEN [kind |-> "memory", err |-> "nil"]
    ELSE IF name = "postgres"
    THEN IF connected THEN [kind |-> "postgres", err |-> "nil"]
         ELSE [kind |-> "none", err |-> "failed to initialize postgres datastore"]
    ELSE [kind |-> "none", err |-> "storage engine is unsupported"]

\* The engine switch: the datastore is constructed, or the function returns
\* an error.
SelectDatastore ==
    /\ apc = "engine"
    /\ \E connected \in BOOLEAN :
          LET e == EngineFor(config.DatastoreEngine, connected) IN
          IF e.err = "nil"
          THEN /\ engine' = [kind |-> e.kind, closes |-> 0]
               /\ apc' = "auth"
               /\ UNCHANGED built
          ELSE /\ built' = BuildError(e.err)
               /\ apc' = "returned"
               /\ UNCHANGED engine
    /\ UNCHANGED <<config, authenticator, nauth, interceptors, server, alog>>
    /\ UNCHANGED <<bvars, svars, mvars>>

\* presharedkey.NewPresharedKeyAuthenticator rejects an empty key list.
NewPresharedKeyAuthenticator(keys) ==
    IF keys # <<>> THEN [authn |-> "preshared", err |-> "nil"]
    ELSE [authn |-> "none", err |-> "invalid auth configuration"]

\* oidc.NewRemoteOidcAuthenticator rejects an issuer that is not well formed.
NewRemoteOidcAuthenticator(issuer) ==
    IF issuer # "" THEN [authn |-> "oidc", err |-> "nil"]
    ELSE [authn |-> "none", err |-> "invalid auth configuration"]

\* Mutant of AuthFor: a method that is not known is rejected, as an engine
\* name is.
AuthForRejectsUnknown(c) ==
    IF c.AuthMethod = "preshared" THEN NewPresharedKeyAuthenticator(c.PresharedKeys)
    ELSE IF c.AuthMethod = "oidc" THEN NewRemoteOidcAuthenticator(c.IssuerURL)
    ELSE IF c.AuthMethod = "none" THEN [authn |-> "none", err |-> "nil"]
    ELSE [authn |-> "none", err |-> "auth method is unsupported"]

\* "switch config.AuthMethod": the authenticator and the error each method
\* gives; "default: err = nil".
AuthFor(c) ==
    IF c.AuthMethod = "preshared" THEN NewPresharedKeyAuthenticator(c.PresharedKeys)
    ELSE IF c.AuthMethod = "oidc" THEN NewRemoteOidcAuthenticator(c.IssuerURL)
    ELSE [authn |-> "none", err |-> "nil"]

\* Mutant of AuthFailed: the error of the constructor is not looked at.
AuthFailedIgnored(err) == FALSE

\* "if err != nil" after the authentication switch.
AuthFailed(err) == err # "nil"

\* The authentication switch and its error check.
SelectAuthenticator ==
    /\ apc = "auth"
    /\ LET a == AuthFor(config) IN
       /\ authenticator' = a.authn
       /\ nauth' = IF a.authn # "none" THEN nauth + 1 ELSE nauth
       /\ IF AuthFailed(a.err)
          THEN /\ built' = BuildError("failed to initialize authenticator")
               /\ apc' = "returned"
          ELSE /\ apc' = "interceptors"
               /\ UNCHANGED built
    /\ UNCHANGED <<config, engine, interceptors, server, alog>>
    /\ UNCHANGED <<bvars, svars, mvars>>

\* "if authenticator != nil { interceptors = append(interceptors,
\* middleware.NewAuthenticationInterceptor(authenticator)) }".
InstallInterceptor ==
    /\ apc = "interceptors"
    /\ interceptors' = IF authenticator # "none"
                       THEN Append(interceptors, authenticator)
                       ELSE interceptors
    /\ apc' = "server"
    /\ UNCHANGED <<config, engine, authenticator, nauth, server, built, alog>>
    /\ UNCHANGED <<bvars, svars, mvars>>

\* "server.New(...)": the server is constructed and returned with the
\* datastore, or the function returns an error.
NewServer ==
    /\ apc = "server"
    /\ \/ /\ server' = "built"
          /\ built' = [datastore |-> engine.kind, server |-> "built", err |-> "nil"]
       \/ /\ built' = BuildError("failed to initialize openfga server")
          /\ UNCHANGED server
    /\ apc' = "returned"
    /\ UNCHANGED <<config, engine, authenticator, nauth, interceptors, alog>>
    /\ UNCHANGED <<bvars, svars, mvars>>

\* "logger.Fatal(...)" in main: the process exits.
Fatal ==
    /\ apc = "returned"
    /\ built.err # "nil"
    /\ apc' = "exited"
    /\ alog' = Append(alog, <<"Fatal", "called">>)
    /\ UNCHANGED <<config, engine, authenticator, nauth, interceptors, server, built>>
    /\ UNCHANGED <<bvars, svars, mvars>>

\* "g.Go(func() error { return openFgaServer.Run(ctx) })": the server opens
\* its listeners and serves.
Run ==
    /\ apc = "returned"
    /\ built.err = "nil"
    /\ server' = "running"
    /\ apc' = "wait"
    /\ alog' = Append(alog, <<"Run", "called">>)
    /\ UNCHANGED <<config, engine, authenticator, nauth, interceptors, built>>
    /\ UNCHANGED <<bvars, svars, mvars>>

\* Mutant of AfterWait: main returns when Run failed.
AfterWaitReturnsOnError(err) == IF err # "nil" THEN "exited" ELSE "serverClose"

\* "if err := g.Wait(); err != nil { logger.Error(...) }": main goes on to
\* the shutdown whatever Run returned.
AfterWait(err) == "serverClose"

\* The context is cancelled by a signal, or Run fails: Run returns and
\* g.Wait returns its error.
Wait ==
    /\ apc = "wait"
    /\ server = "running"
    /\ server' = "stopped"
    /\ \E err \in {"nil", "run error"} :
          /\ alog' = Append(alog, <<"Run", err>>)
          /\ apc' = AfterWait(err)
    /\ UNCHANGED <<config, engine, authenticator, nauth, interceptors, built>>
    /\ UNCHANGED <<bvars, svars, mvars>>

\* "openFgaServer.Close(ctx)": its error is logged.
ServerClose ==
    /\ apc = "serverClose"
    /\ server' = "closed"
    /\ \E err \in {"nil", "close error"} :
          alog' = alog \o << <<"server.Close", "called">>, <<"server.Close", err>> >>
    /\ apc' = "datastoreClose"
    /\ UNCHANGED <<config, engine, authenticator, nauth, interceptors, built>>
    /\ UNCHANGED <<bvars, svars, mvars>>

\* "datastore.Close(ctx)" on the datastore buildServerAndDatastore returned;
\* its error is logged and main returns.
DatastoreClose ==
    /\ apc = "datastoreClose"
    /\ built.datastore # "none"
    /\ engine' = [engine EXCEPT !.closes = @ + 1]
    /\ \E err \in {"nil", "close error"} :
          alog' = alog \o << <<"datastore.Close", "called">>, <<"datastore.Close", err>> >>
    /\ apc' = "exited"
    /\ UNCHANGED <<config, authenticator, nauth, interceptors, server, built>>
    /\ UNCHANGED <<bvars, svars, mvars>>

NextApp ==
    \/ ProcessConfig
    \/ SelectDatastore
    \/ SelectAuthenticator
    \/ InstallInterceptor
    \/ NewServer
    \/ Fatal
    \/ Run
    \/ Wait
    \/ ServerClose
    \/ DatastoreClose

(***************************************************************************)
(* Specifications: one per component, the other components at rest.        *)
(***************************************************************************)
\* The state the stack is in while another component is exercised.
StackAtRest == InitStack /\ cfg.name = "e2e"

\* The state the registry is in while another component is exercised.
MigrateAtRest == InitMigrate /\ "ulid" \notin schema["tuple"]

\* The bounded reader with its direct callers.
Init == InitBounded /\ StackAtRest /\ MigrateAtRest /\ InitApp

Next == NextBounded

Spec == Init /\ [][Next]_vars

\* The Go scheduler runs every runnable goroutine, and every call of the
\* wrapped reader returns.
FairBounded ==
    \A g \in Callers :
        /\ WF_vars(Delegate(g))
        /\ WF_vars(Return(g))

FairSpec == Init /\ [][Next]_vars /\ FairBounded

\* The decorator stack built at startup.
StackInit == InitBounded /\ capacity = 1 /\ InitStack /\ MigrateAtRest /\ InitApp

StackSpec == StackInit /\ [][NextStack]_vars

\* The migration registry.
MigrateInit == InitBounded /\ capacity = 1 /\ StackAtRest /\ InitMigrate /\ InitApp

MigrateSpec == MigrateInit /\ [][NextMigrate]_vars

\* The registry as the package initialisation leaves it (init has registered
\* migration 5), on a database no migration was applied to yet or on one
\* that migration 5 was applied to.
RegistryAtStart ==
    /\ registered = <<Version005>>
    /\ mphase = "idle"
    /\ batch = "none"
    /\ startMarker = 0
    /\ mlog = <<>>
    /\ nbatches = 0
    /\ \E b \in BaseSchemas :
          \/ marker = 0 /\ schema = b
          \/ /\ marker = Version005
             /\ schema = [t \in Tables |-> b[t] \cup ConditionColumns]
    /\ step = [run |-> NoStep, schema |-> schema, marker |-> marker]
    /\ pre005 = schema

\* The process, from its start to its exit.
AppInit == InitBounded /\ capacity = 1 /\ StackAtRest /\ RegistryAtStart /\ InitApp

AppSpec == AppInit /\ [][NextApp]_vars

(***************************************************************************)
(* Properties of the bounded reader.                                       *)
(***************************************************************************)
\* Calls executing inside the wrapped reader.
InWrapped == {g \in Callers : pc[g] = "wrapped"}

\* Calls that completed the send and have not yet run the deferred receive.
Holders == {g \in Callers : pc[g] \in {"acquired", "wrapped"}}

\* Calls that were entered and have not returned.
InFlight == {g \in Callers : pc[g] \notin {"idle", "returned"}}

\* C1: at most `capacity` calls execute inside the wrapped reader at any
\* instant, whatever mix of the three methods the callers issue.
C1_AtMostCapacityInWrapped == Cardinality(InWrapped) <= capacity

\* C1 witness: capacity + 1 calls are in progress, capacity of them inside
\* the wrapped reader and one parked.
C1_Witness ==
    /\ capacity = 2
    /\ Cardinality(InWrapped) = capacity
    /\ \E g \in Callers : pc[g] = "waiting"
    /\ \E g, h \in InWrapped : req[g].method # req[h].method

\* C2 (as claimed): a call whose context fired while it was parked on the
\* limiter never acquires a unit and never reaches the wrapped reader.
C2_CancelledWaiterNeverDelegates ==
    \A g \in Callers : blockedCancel[g] => g \notin Holders

\* C3: under fair scheduling, every parked call whose context is live
\* eventually executes inside the wrapped reader, also when other parked
\* calls had their context cancelled.
C3_LiveWaiterEventuallyServed ==
    \A g \in Callers : (pc[g] = "waiting" /\ ~ctxDone[g]) ~> (pc[g] = "wrapped")

\* C3 witness: a call that was parked and has a live context is inside the
\* wrapped reader while another call, cancelled while parked, still waits.
C3_Witness ==
    \E g, h \in Callers :
        /\ g # h
        /\ pc[g] = "wrapped" /\ waited[g] /\ ~ctxDone[g]
        /\ pc[h] = "waiting" /\ blockedCancel[h]

\* C4: the tokens in the limiter are exactly the calls that acquired and
\* have not returned; with no call in flight the limiter is empty.
C4_TokensEqualHolders ==
    /\ limiter = Cardinality(Holders)
    /\ (InFlight = {} => limiter = 0)

\* C4 witness: a call whose wrapped call failed has returned and nothing
\* is in flight.
C4_Witness ==
    /\ InFlight = {}
    /\ \E g \in Callers : pc[g] = "returned" /\ ret[g].err = "storage error"
    /\ \E g \in Callers : pc[g] = "returned" /\ ret[g].err = "nil"

\* C5: a call returns exactly what the wrapped reader returned to it, after
\* calling the same method of the wrapped reader once with its own arguments.
C5_PassThrough ==
    [][\A g \in Callers :
          (pc[g] = "wrapped" /\ pc'[g] = "returned") =>
              /\ ret'[g] = wret'[g]
              /\ wcalls[g] = 1
              /\ wreq[g] = req[g]]_vars

\* C5 witness: a ReadUsersetTuples call returned the wrapped reader's error
\* and another call returned the wrapped reader's value.
C5_Witness ==
    \E g, h \in Callers :
        /\ pc[g] = "returned" /\ ret[g].err = "storage error"
        /\ pc[h] = "returned" /\ ret[h] = [val |-> <<"ReadUserTuple", "k2">>, err |-> "nil"]

\* The callers holding the iterator their last call handed them.  No
\* operation of the reader releases an iterator: each stays open.
OpenIterators ==
    {g \in Callers : /\ pc[g] = "returned"
                     /\ ret[g].err = "nil"
                     /\ ret[g].val[1] \in {"Read", "ReadUsersetTuples"}}

\* C17: Read and ReadUsersetTuples hold a unit only while the wrapped call
\* executes.  The unit is released when the iterator is handed to the caller:
\* open iterators do not count against the capacity, and a call is parked
\* only while as many calls as the capacity are between acquire and release,
\* never because of an iterator that was not released.
C17_OpenIteratorsHoldNoUnit ==
    /\ \A g \in OpenIterators : limiter = Cardinality(Holders \ {g})
    /\ \A g \in Callers : pc[g] = "waiting" => Cardinality(Holders) = capacity

\* C17 witness: with capacity 1, two callers hold an open iterator (one from
\* Read, one from ReadUsersetTuples) and a third call entered the wrapped
\* reader without having been parked.
C17_Witness ==
    /\ capacity = 1
    /\ \E g, h, k \in Callers :
          /\ g \in OpenIterators /\ ret[g].val[1] = "Read"
          /\ h \in OpenIterators /\ ret[h].val[1] = "ReadUsersetTuples"
          /\ pc[k] = "wrapped" /\ ~waited[k]

(***************************************************************************)
(* Properties of the migration registry.                                   *)
(***************************************************************************)
\* The least element of a non-empty set of versions.
Least(S) == CHOOSE v \in S : \A w \in S : v <= w

\* The greatest element of a non-empty set of versions.
Greatest(S) == CHOOSE v \in S : \A w \in S : w <= v

RECURSIVE Ascending(_)
Ascending(S) ==
    IF S = {} THEN <<>> ELSE <<Least(S)>> \o Ascending(S \ {Least(S)})

RECURSIVE Descending(_)
Descending(S) ==
    IF S = {} THEN <<>> ELSE <<Greatest(S)>> \o Descending(S \ {Greatest(S)})

IsPrefix(a, b) == Len(a) <= Len(b) /\ a = SubSeq(b, 1, Len(a))

\* The versions of the steps the current batch executed, in order.
Executed == [i \in 1..Len(mlog) |-> mlog[i][2]]

\* C10: apply-up executes the forward steps of the unapplied migrations in
\* ascending version order and apply-down the backward steps in descending
\* version order: the steps executed are an initial part of the sorted list
\* of the registered versions, whatever the order of the Register calls.
C10_VersionOrder ==
    /\ batch = "up" =>
          IsPrefix(Executed, Ascending({v \in RegisteredVersions : v > startMarker}))
    /\ batch = "down" =>
          IsPrefix(Executed, Descending({v \in RegisteredVersions : v <= startMarker}))
    /\ \A i \in 1..Len(mlog) :
          mlog[i][1] \in (IF batch = "up" THEN {"forward", "forward failed"}
                          ELSE {"backward", "backward failed"})

\* C10 witness: versions 1, 3, 2 and 5 registered in that order; apply-up ran
\* and apply-down has executed backward 5, 3, 2, 1.
C10_Witness ==
    /\ registered = <<1, 3, 2, 5>>
    /\ nbatches = 2
    /\ mphase = "down"
    /\ mlog = << <<"backward", 5>>, <<"backward", 3>>, <<"backward", 2>>,
                 <<"backward", 1>> >>

\* The last step the registry ran was the step fn of migration 5.
Ran005(fn) == step.run.fn = fn /\ step.run.version = Version005

\* C11: when a forward migration fails at its second statement (for version
\* 5: the ALTER TABLE on changelog, after the one on tuple succeeded), the
\* schema and the persisted marker after the failed apply are what they were
\* before the migration started: the first statement's effect does not remain.
C11_FailedForwardLeavesNoEffect ==
    (/\ step.run.fn = "forward"
     /\ Len(step.run.executed) = 2
     /\ step.run.executed[1].err = "nil"
     /\ step.run.executed[2].err # "nil") =>
        /\ schema = step.schema
        /\ marker = step.marker
        /\ ~step.run.committed

\* C11 witness: up005 was applied to a database at version 3, its statement
\* on tuple succeeded and its statement on changelog failed.
C11_Witness ==
    /\ Ran005("forward")
    /\ step.marker = 3
    /\ step.run.executed = << [stmt |-> up005Stmts[1], err |-> "nil"],
                              [stmt |-> up005Stmts[2], err |-> "exec error"] >>
    /\ mphase = "idle"
    /\ \A t \in Tables : schema[t] \cap ConditionColumns = {}

\* C16: a step of migration 5 (up005, down005) executes its statements in
\* list order and stops at the first one that fails: no later statement is
\* executed, the step returns that statement's error as it is, and it returns
\* nil only when every statement succeeded.
C16_StatementsInOrderUntilFirstError ==
    \A fn \in {"forward", "backward"} :
        Ran005(fn) =>
            LET e == step.run.executed
                stmts == StmtsOf(fn, Version005)
            IN  /\ Len(e) \in 1..Len(stmts)
                /\ \A i \in 1..Len(e) : e[i].stmt = stmts[i]
                /\ \A i \in 1..(Len(e) - 1) : e[i].err = "nil"
                /\ step.run.err = e[Len(e)].err
                /\ (step.run.err = "nil") <=>
                       (Len(e) = Len(stmts) /\ \A i \in 1..Len(e) : e[i].err = "nil")

\* C16 witness: down005 failed at its first statement and executed nothing
\* after it.
C16_Witness ==
    /\ Ran005("backward")
    /\ step.run.executed = << [stmt |-> down005Stmts[1], err |-> "exec error"] >>
    /\ step.run.err = "exec error"
    /\ ~step.run.committed

\* C20: migration 5 is reversible.  From a schema whose tables tuple and
\* changelog lack the condition columns, a successful up005 adds the same two
\* columns to both tables, and a successful down005 after it restores the
\* columns of both tables to what they were before up005.
C20_Migration5Reversible ==
    /\ (Ran005("forward") /\ step.run.committed) =>
           \A t \in Tables :
               /\ step.schema[t] \cap ConditionColumns = {}
               /\ schema[t] = step.schema[t] \cup ConditionColumns
               /\ schema[t] \ step.schema[t] = {"condition_name", "condition_context"}
    /\ (Ran005("backward") /\ step.run.committed) =>
           /\ schema = pre005
           /\ \A t \in Tables : step.schema[t] = pre005[t] \cup ConditionColumns

\* C20 witness: up005 and then down005 ran and both succeeded.
C20_Witness ==
    /\ Ran005("backward")
    /\ step.run.committed
    /\ step.marker = Version005
    /\ marker < Version005
    /\ schema = pre005
    /\ schema \in BaseSchemas

(***************************************************************************)
(* Properties of the decorator stack.                                      *)
(***************************************************************************)
\* Reads executing in the physical engine.
InEngine == {r \in Readers : spc[r] = "engine"}

\* Whether layer x occurs in the path p before layer y.
Before(p, x, y) ==
    \E i, j \in 1..Len(p) : i < j /\ p[i] = x /\ p[j] = y

\* Calls the read in progress (or just returned) made to the wrapped reader.
CallsOf(r) == IF \E i \in 1..Len(path[r]) : path[r][i] = "engine" THEN 1 ELSE 0

\* C6 (as claimed): every read that reaches the physical engine has entered
\* a concurrency-bounded reader first, and a read served from the cache has
\* entered neither.
C6_EngineReadsAreBounded ==
    \A r \in Readers :
        /\ spc[r] = "engine" => Before(path[r], "bounded", "engine")
        /\ (spc[r] = "done" /\ start[r].was = "retained") => path[r] = <<"caching">>

\* C7 (as claimed): in the end-to-end scenario never more than 2 reads
\* execute in the engine, and when the 5 reads have returned exactly 1 has
\* reached the engine and 4 were served from the cache.
C7_EndToEnd ==
    cfg.name = "e2e" =>
        /\ Cardinality(InEngine) <= 2
        /\ (nreads = cfg.reads /\ \A r \in Readers : spc[r] = "done") =>
               (reached = 1 /\ hits = 4)

\* C8: a read of a fingerprint that starts after a read of the same
\* fingerprint returned, with no eviction of it in between, makes no call to
\* the wrapped reader and returns the same result, so that the two reads
\* together make the one call of the first read (none when the first read
\* was itself served from the cache).
C8_BackToBackReads ==
    \A r \in Readers :
        (spc[r] # "idle" /\ start[r].last # NoLast) =>
            /\ spc[r] = "done"
            /\ CallsOf(r) = 0
            /\ sret[r] = start[r].last.ret
            /\ start[r].last.calls + CallsOf(r) <= 1

\* C8 witness: the second read of a pair returned the result of the first,
\* which had called the engine once, although the tuple was written since.
C8_Witness ==
    \E r \in Readers :
        /\ spc[r] = "done"
        /\ start[r].last = [ret |-> <<"not found">>, calls |-> 1]
        /\ sret[r] = <<"not found">>
        /\ CallsOf(r) = 0
        /\ sreq[r].key \in datastore

\* C9: the cache never holds more entries than its configured capacity; it
\* holds exactly the most recently used fingerprints, so that an insertion
\* into a full cache evicts the least recently used entry and no other; a
\* read of an evicted fingerprint calls the wrapped reader, a read of a
\* retained fingerprint does not.
C9_LruCapacity ==
    /\ Len(cache) <= cfg.cap
    /\ FpsOf(cache) = MostRecent(Len(cache))
    /\ \A r \in Readers :
          spc[r] # "idle" =>
              /\ start[r].was = "retained" => CallsOf(r) = 0
              /\ start[r].was = "evicted" => CallsOf(r) = 1

\* C9 witness: capacity + 1 fingerprints were inserted, a read of the evicted
\* one is in the engine and the cache still holds the retained ones.
C9_Witness ==
    /\ cfg.name = "small"
    /\ Len(cache) = cfg.cap
    /\ Len(recency) = cfg.cap + 1
    /\ \E r \in Readers :
          /\ spc[r] = "engine"
          /\ start[r].was = "evicted"
          /\ Fingerprint(sreq[r]) = recency[Len(recency)]
    /\ \E r \in Readers :
          /\ spc[r] = "done"
          /\ start[r].was = "retained"
          /\ CallsOf(r) = 0

(***************************************************************************)
(* Properties of the process.                                              *)
(***************************************************************************)
\* The positions of main after the return of buildServerAndDatastore.
AfterBuild == {"returned", "wait", "serverClose", "datastoreClose", "exited"}

\* The lifecycle call c was made.
Called(c) == \E i \in 1..Len(alog) : alog[i] = <<c, "called">>

\* The position in the log of the call c, and of its return.
CallOf(c) == CHOOSE i \in 1..Len(alog) : alog[i] = <<c, "called">>
ReturnOf(c) == CHOOSE i \in 1..Len(alog) : alog[i][1] = c /\ alog[i][2] # "called"
HasReturned(c) == \E i \in 1..Len(alog) : alog[i][1] = c /\ alog[i][2] # "called"

\* The configuration was read and names an engine that is not supported.
UnknownEngine ==
    config # NoConfig /\ config.DatastoreEngine \notin {"memory", "postgres"}

\* C12: for every configured engine name other than "memory" and
\* "postgres", buildServerAndDatastore returns an error, no server and no
\* datastore, and main terminates without calling Run: no listener is opened.
C12_UnknownEngineIsFatal ==
    UnknownEngine =>
        /\ apc \in {"engine", "returned", "exited"}
        /\ engine = NoEngine
        /\ server = "none"
        /\ ~Called("Run")
        /\ apc \in AfterBuild =>
              built = [datastore |-> "none", server |-> "none",
                       err |-> "storage engine is unsupported"]

\* C12 witness: the engine name "mysql" was configured and the process has
\* exited through logger.Fatal.
C12_Witness ==
    /\ config.DatastoreEngine = "mysql"
    /\ apc = "exited"
    /\ built.err = "storage engine is unsupported"
    /\ alog = << <<"Fatal", "called">> >>


\* C13: when the selected engine is the relational (postgres) engine, all
\* pending migrations are applied during startup: Run is never entered with
\* a postgres engine that still has unapplied migrations.
C13_MigratedBeforeRun ==
    (Called("Run") /\ engine.kind = "postgres") =>
        ~ \E v \in RegisteredVersions : v > marker

\* C14: after a successful startup the server's Close is called only after
\* Run has returned, the engine's Close only after the server's Close has
\* returned, and the engine's Close is called exactly once, whatever Run and
\* the server's Close returned.
C14_ShutdownOrder ==
    built.err = "nil" =>
        /\ Called("server.Close") =>
              HasReturned("Run") /\ ReturnOf("Run") < CallOf("server.Close")
        /\ Called("datastore.Close") =>
              /\ HasReturned("server.Close")
              /\ ReturnOf("server.Close") < CallOf("datastore.Close")
        /\ Cardinality({i \in 1..Len(alog) : alog[i] = <<"datastore.Close", "called">>})
               = engine.closes
        /\ engine.closes <= 1
        /\ (HasReturned("Run") /\ apc = "exited") => engine.closes = 1

\* C14 witness: Run and the server's Close both returned an error and the
\* engine was closed after them.
C14_Witness ==
    /\ apc = "exited"
    /\ engine = [kind |-> "postgres", closes |-> 1]
    /\ alog = << <<"Run", "called">>, <<"Run", "run error">>,
                 <<"server.Close", "called">>, <<"server.Close", "close error">>,
                 <<"datastore.Close", "called">>, <<"datastore.Close", "nil">> >>

\* The authentication switch has run.
AuthRan == engine.kind # "none" /\ apc \notin {"start", "engine", "auth"}

\* The parameters of the selected strategy are not valid.
BadAuthParameters ==
    \/ config.AuthMethod = "preshared" /\ config.PresharedKeys = <<>>
    \/ config.AuthMethod = "oidc" /\ config.IssuerURL = ""

\* C15: when the selected authentication strategy ("preshared" or "oidc")
\* fails to construct from its parameters, buildServerAndDatastore returns an
\* error and no server, and Run is never called; at most one authenticator
\* and at most one authentication interceptor is ever installed.
C15_AuthFailureIsFatal ==
    /\ (AuthRan /\ BadAuthParameters) =>
           /\ apc \in {"returned", "exited"}
           /\ built = [datastore |-> "none", server |-> "none",
                       err |-> "failed to initialize authenticator"]
           /\ server = "none"
           /\ ~Called("Run")
    /\ nauth <= 1
    /\ Len(interceptors) <= 1

\* C15 witness: preshared keys were selected with an empty key list, and the
\* process has exited through logger.Fatal.
C15_Witness ==
    /\ config.AuthMethod = "preshared"
    /\ config.PresharedKeys = <<>>
    /\ engine.kind = "memory"
    /\ apc = "exited"
    /\ built.err = "failed to initialize authenticator"
    /\ alog = << <<"Fatal", "called">> >>

\* C18: for every AuthMethod other than "preshared" and "oidc" ("none", a
\* misspelled or an unknown name), buildServerAndDatastore reports no
\* authentication error, constructs no authenticator and installs no
\* interceptor; an unknown engine name is rejected.
C18_UnknownAuthMethodMeansNone ==
    /\ (AuthRan /\ config.AuthMethod \notin {"preshared", "oidc"}) =>
           /\ built.err \in {"pending", "nil", "failed to initialize openfga server"}
           /\ authenticator = "none"
           /\ nauth = 0
           /\ interceptors = <<>>
    /\ (UnknownEngine /\ apc \in AfterBuild) =>
           built.err = "storage engine is unsupported"

\* C18 witness: the server runs with the misspelled method "presharedkey",
\* no authenticator and no interceptor.
C18_Witness ==
    /\ config.AuthMethod = "presharedkey"
    /\ config.PresharedKeys = <<"secret">>
    /\ server = "running"
    /\ authenticator = "none"
    /\ interceptors = <<>>

\* C19: every datastore that startup constructs is closed exactly once by
\* the time the process exits, also when a later startup step (the
\* authenticator, the server) fails.
C19_ConstructedDatastoreClosedOnce ==
    /\ engine.closes <= 1
    /\ (apc = "exited" /\ engine.kind # "none") => engine.closes = 1

=============================================================================
